---- MODULE Spec2Model ----
(***************************************************************************)
(* Model of mdfham2m.py: the SM50 MDF band-limit patcher.                  *)
(*                                                                         *)
(* Byte buffers are sequences of integers in 0..255.  The three functions  *)
(* checksum, replace_band_limits and fixup_checksum are modelled as the    *)
(* code computes them; the driver (__main__) is a state machine over a     *)
(* small file system holding the three paths the script touches.           *)
(***************************************************************************)
EXTENDS Integers, Sequences, FiniteSets, TLC

VARIABLES
    argc,               \* len(sys.argv)
    fs,                 \* the directory: path -> [exists, data]
    fs_at_start,        \* the directory as it was when the current run began
    pc,                 \* position of the driver
    exit_code,          \* -1 while the process has not exited
    buffer,             \* bytes read from the input file
    original_checksum,
    updated_buffer,
    difference,         \* fixup_checksum local
    replaced,           \* fixup_checksum local (the bytearray)
    i,                  \* fixup_checksum loop index, 0-based
    fixed_buffer,
    new_checksum,
    pending,            \* bytes held in new_file's userspace write buffer
    run,                \* number of the current invocation of the tool
    prev_buffer         \* the input buffer of the previous invocation

vars == <<argc, fs, fs_at_start, pc, exit_code, buffer, original_checksum,
          updated_buffer, difference, replaced, i, fixed_buffer, new_checksum,
          pending, run, prev_buffer>>

-----------------------------------------------------------------------------
(* Bounds of the model *)

\* Longest input file, counted in pieces (needle, anchor or filler byte).
MaxPieces == 5
\* Length of the optional run of 0xFF bytes that pushes the byte sum of a
\* file past 2^16, so that the 16-bit checksum wraps.
PadLen == 248
\* Invocations of the tool in one behaviour.
MaxRuns == 2
\* Longest buffer handed directly to fixup_checksum, in pieces.
MaxFixupPieces == 2
\* Largest number of whole 32-steps in a checksum difference handed directly
\* to fixup_checksum (17 steps is the anchor's whole budget).
MaxSteps == 18

-----------------------------------------------------------------------------
(* Program constants *)

\* b'\xDC\x05\xA4\x06'
Needle == <<220, 5, 164, 6>>
\* b'\xA0\x05\x68\x06'
Replacement == <<160, 5, 104, 6>>
\* b'ALL RIGHTS RESERVED'
original == <<65, 76, 76, 32, 82, 73, 71, 72, 84, 83, 32,
              82, 69, 83, 69, 82, 86, 69, 68>>
\* third argument of buffer.replace in replace_band_limits
MaxCount == 3
\* the space character skipped by the loop
Space == 32
\* largest amount one anchor byte absorbs
MaxChange == 32
\* cksum & 0xFFFF
Modulus == 65536

-----------------------------------------------------------------------------
(* Pure functions *)

\* the loop "for val in ...: cksum += val[0]" over buf[lo..hi]; the additions
\* are grouped by halves (integer addition is associative)
RECURSIVE SumRange(_, _, _)
SumRange(buf, lo, hi) ==
    IF lo > hi THEN 0
    ELSE IF lo = hi THEN buf[lo]
    ELSE LET mid == (lo + hi) \div 2
         IN  SumRange(buf, lo, mid) + SumRange(buf, mid + 1, hi)

\* checksum(buffer): sum of the bytes as unsigned values, & 0xFFFF
checksum(buf) == SumRange(buf, 1, Len(buf)) % Modulus

\* TRUE iff old occurs in buf at (1-based) position p
MatchAt(buf, old, p) ==
    /\ p + Len(old) - 1 <= Len(buf)
    /\ \A k \in 1..Len(old) : buf[p + k - 1] = old[k]

\* positions >= p at which old occurs in buf
MatchesFrom(buf, old, p) == {q \in p..Len(buf) : MatchAt(buf, old, q)}

\* buf.find(old, p): the leftmost occurrence at or after p (0 if none)
Find(buf, old, p) ==
    LET ms == MatchesFrom(buf, old, p)
    IN  IF ms = {} THEN 0 ELSE CHOOSE q \in ms : \A r \in ms : q <= r

\* bytes.replace(old, new, count) for a non-empty old: find the leftmost
\* occurrence, replace it, resume the scan after it, at most count times.
RECURSIVE ReplaceFrom(_, _, _, _, _)
ReplaceFrom(buf, old, new, count, p) ==
    LET q == Find(buf, old, p)
    IN  IF count = 0 \/ q = 0 THEN SubSeq(buf, p, Len(buf))
        ELSE SubSeq(buf, p, q - 1) \o new
                 \o ReplaceFrom(buf, old, new, count - 1, q + Len(old))

bytes_replace(buf, old, new, count) == ReplaceFrom(buf, old, new, count, 1)

\* Variant: every occurrence is replaced (no count argument).
replace_band_limits_All(buf) ==
    bytes_replace(buf, Needle, Replacement, Len(buf))

\* Variant: only the first occurrence is replaced.
replace_band_limits_One(buf) == bytes_replace(buf, Needle, Replacement, 1)

replace_band_limits(buf) == bytes_replace(buf, Needle, Replacement, MaxCount)

\* Variant: a byte absorbs up to 64.
Change_Wide(d) ==
    IF d > 0 THEN (IF d < 2 * MaxChange THEN d ELSE 2 * MaxChange)
             ELSE (IF d > -2 * MaxChange THEN d ELSE -2 * MaxChange)

\* change = min(32, difference) if difference > 0 else max(-32, difference)
Change(d) ==
    IF d > 0 THEN (IF d < MaxChange THEN d ELSE MaxChange)
             ELSE (IF d > -MaxChange THEN d ELSE -MaxChange)

-----------------------------------------------------------------------------
(* Input files *)

Pieces == {Needle, original, <<220>>}

RECURSIVE Flatten(_)
Flatten(ps) == IF ps = <<>> THEN <<>> ELSE Head(ps) \o Flatten(Tail(ps))

PieceSeqs(n) == UNION {[1..m -> Pieces] : m \in 0..n}

Pad(n) == [k \in 1..n |-> 255]

Inputs == {Pad(n) \o Flatten(ps) : n \in {0, PadLen}, ps \in PieceSeqs(MaxPieces)}

NoFile == [exists |-> FALSE, data |-> <<>>]
File(d) == [exists |-> TRUE, data |-> d]

Paths == {"filename", "backup_filename", "new_file"}

-----------------------------------------------------------------------------
(* The driver *)

Init ==
    /\ argc \in {1, 2, 3}
    /\ \E f \in {NoFile} \cup {File(d) : d \in Inputs} :
         fs = [p \in Paths |-> IF p = "filename" THEN f ELSE NoFile]
    /\ fs_at_start = fs
    /\ pc = "args"
    /\ exit_code = -1
    /\ buffer = <<>>
    /\ original_checksum = 0
    /\ updated_buffer = <<>>
    /\ difference = 0
    /\ replaced = <<>>
    /\ i = 0
    /\ fixed_buffer = <<>>
    /\ new_checksum = 0
    /\ pending = <<>>
    /\ run = 1
    /\ prev_buffer = <<>>

locals == <<buffer, original_checksum, updated_buffer, difference, replaced, i,
            fixed_buffer, new_checksum>>

Exit(code) ==
    /\ pc' = "exited"
    /\ exit_code' = code

\* if len(sys.argv) != 2: sys.exit(1)
CheckArgs ==
    /\ pc = "args"
    /\ IF argc # 2 THEN Exit(1) ELSE pc' = "exists" /\ exit_code' = exit_code
    /\ UNCHANGED <<argc, fs, fs_at_start, locals, pending, run, prev_buffer>>

\* if not os.path.exists(filename): sys.exit(2)
CheckExists ==
    /\ pc = "exists"
    /\ IF ~fs["filename"].exists THEN Exit(2)
       ELSE pc' = "read" /\ exit_code' = exit_code
    /\ UNCHANGED <<argc, fs, fs_at_start, locals, pending, run, prev_buffer>>

\* buffer = open(filename, 'rb').read(); original_checksum = checksum(buffer)
ReadFile ==
    /\ pc = "read"
    /\ buffer' = fs["filename"].data
    /\ original_checksum' = checksum(buffer')
    /\ pc' = "replace"
    /\ UNCHANGED <<argc, fs, fs_at_start, exit_code, updated_buffer, difference,
                   replaced, i, fixed_buffer, new_checksum, pending, run,
                   prev_buffer>>

\* updated_buffer = replace_band_limits(buffer)
ReplaceBandLimits ==
    /\ pc = "replace"
    /\ updated_buffer' = replace_band_limits(buffer)
    /\ pc' = "fixup"
    /\ UNCHANGED <<argc, fs, fs_at_start, exit_code, buffer, original_checksum,
                   difference, replaced, i, fixed_buffer, new_checksum, pending,
                   run, prev_buffer>>

\* Variant: the difference is taken the other way round.
FixupEnter_Reversed ==
    /\ pc = "fixup"
    /\ difference' = checksum(updated_buffer) - original_checksum
    /\ replaced' = original
    /\ i' = 0
    /\ pc' = "loop"
    /\ UNCHANGED <<argc, fs, fs_at_start, exit_code, buffer, original_checksum,
                   updated_buffer, fixed_buffer, new_checksum, pending, run,
                   prev_buffer>>

\* fixup_checksum, up to the loop: difference and the working copy
FixupEnter ==
    /\ pc = "fixup"
    /\ difference' = original_checksum - checksum(updated_buffer)
    /\ replaced' = original
    /\ i' = 0
    /\ pc' = "loop"
    /\ UNCHANGED <<argc, fs, fs_at_start, exit_code, buffer, original_checksum,
                   updated_buffer, fixed_buffer, new_checksum, pending, run,
                   prev_buffer>>

\* one pass through "for i in range(len(replaced))"; a bytearray element
\* assigned a value outside 0..255 raises ValueError, which ends the process
\* with exit code 1
FixupLoop ==
    /\ pc = "loop"
    /\ IF i >= Len(replaced) \/ difference = 0
       THEN /\ pc' = "fixup_return"
            /\ UNCHANGED <<exit_code, difference, replaced, i>>
       ELSE IF replaced[i + 1] = Space
       THEN /\ i' = i + 1
            /\ UNCHANGED <<pc, exit_code, difference, replaced>>
       ELSE LET change == Change(difference)
                value == replaced[i + 1] + change
            IN  IF value \in 0..255
                THEN /\ replaced' = [replaced EXCEPT ![i + 1] = value]
                     /\ difference' = difference - change
                     /\ i' = i + 1
                     /\ UNCHANGED <<pc, exit_code>>
                ELSE /\ Exit(1)
                     /\ UNCHANGED <<difference, replaced, i>>
    /\ UNCHANGED <<argc, fs, fs_at_start, buffer, original_checksum,
                   updated_buffer, fixed_buffer, new_checksum, pending, run,
                   prev_buffer>>

\* return buffer.replace(original, replaced, 1)
FixupReturn ==
    /\ pc = "fixup_return"
    /\ fixed_buffer' = bytes_replace(updated_buffer, original, replaced, 1)
    /\ pc' = "recheck"
    /\ UNCHANGED <<argc, fs, fs_at_start, exit_code, buffer, original_checksum,
                   updated_buffer, difference, replaced, i, new_checksum,
                   pending, run, prev_buffer>>

\* new_checksum = checksum(fixed_buffer)
Recheck ==
    /\ pc = "recheck"
    /\ new_checksum' = checksum(fixed_buffer)
    /\ pc' = "verify"
    /\ UNCHANGED <<argc, fs, fs_at_start, exit_code, buffer, original_checksum,
                   updated_buffer, difference, replaced, i, fixed_buffer,
                   pending, run, prev_buffer>>

\* Variant: the comparison is missing.
Verify_Unchecked ==
    /\ pc = "verify"
    /\ pc' = "mktemp"
    /\ UNCHANGED <<argc, fs, fs_at_start, exit_code, locals, pending, run,
                   prev_buffer>>

\* Variant: the temp file is created before the comparison.
Verify_AfterTemp ==
    /\ pc = "verify"
    /\ fs' = [fs EXCEPT !["new_file"] = File(<<>>)]
    /\ IF new_checksum # original_checksum THEN Exit(3)
       ELSE pc' = "mktemp" /\ exit_code' = exit_code
    /\ UNCHANGED <<argc, fs_at_start, locals, pending, run, prev_buffer>>

\* if new_checksum != original_checksum: sys.exit(3)
Verify ==
    /\ pc = "verify"
    /\ IF new_checksum # original_checksum THEN Exit(3)
       ELSE pc' = "mktemp" /\ exit_code' = exit_code
    /\ UNCHANGED <<argc, fs, fs_at_start, locals, pending, run, prev_buffer>>

\* new_file = tempfile.NamedTemporaryFile(dir=..., delete=False)
CreateTemp ==
    /\ pc = "mktemp"
    /\ fs' = [fs EXCEPT !["new_file"] = File(<<>>)]
    /\ pending' = <<>>
    /\ pc' = "write"
    /\ UNCHANGED <<argc, fs_at_start, exit_code, locals, run, prev_buffer>>

\* Variant: updated_buffer is written instead of fixed_buffer.
WriteTemp_Updated ==
    /\ pc = "write"
    /\ \E n \in {0, Len(updated_buffer)} :
         /\ fs' = [fs EXCEPT !["new_file"].data =
                                 @ \o SubSeq(updated_buffer, 1, n)]
         /\ pending' = SubSeq(updated_buffer, n + 1, Len(updated_buffer))
    /\ pc' = "rename_backup"
    /\ UNCHANGED <<argc, fs_at_start, exit_code, locals, run, prev_buffer>>

\* new_file.write(fixed_buffer) on a buffered file object that is neither
\* flushed nor closed by the script: the bytes stay in the object's write
\* buffer when they fit in it (n = 0) and go to the file when they do not
\* (n = Len(fixed_buffer)); the buffer size is the platform's.
WriteTemp ==
    /\ pc = "write"
    /\ \E n \in {0, Len(fixed_buffer)} :
         /\ fs' = [fs EXCEPT !["new_file"].data =
                                 @ \o SubSeq(fixed_buffer, 1, n)]
         /\ pending' = SubSeq(fixed_buffer, n + 1, Len(fixed_buffer))
    /\ pc' = "rename_backup"
    /\ UNCHANGED <<argc, fs_at_start, exit_code, locals, run, prev_buffer>>

\* os.rename(src, dst): dst takes src's file (replacing any file at dst),
\* src no longer exists
os_rename(dir, src, dst) == [dir EXCEPT ![dst] = dir[src], ![src] = NoFile]

\* Variant: the original is removed instead of renamed to the backup path.
RenameBackup_Remove ==
    /\ pc = "rename_backup"
    /\ fs' = [fs EXCEPT !["filename"] = NoFile]
    /\ pc' = "rename_temp"
    /\ UNCHANGED <<argc, fs_at_start, exit_code, locals, pending, run,
                   prev_buffer>>

\* backup_filename = filename + '.BAK'; os.rename(filename, backup_filename)
RenameBackup ==
    /\ pc = "rename_backup"
    /\ fs' = os_rename(fs, "filename", "backup_filename")
    /\ pc' = "rename_temp"
    /\ UNCHANGED <<argc, fs_at_start, exit_code, locals, pending, run,
                   prev_buffer>>

\* os.rename(new_file.name, filename)
RenameTemp ==
    /\ pc = "rename_temp"
    /\ fs' = os_rename(fs, "new_file", "filename")
    /\ pc' = "done"
    /\ UNCHANGED <<argc, fs_at_start, exit_code, locals, pending, run,
                   prev_buffer>>

\* print("Done.") and the end of the script: the interpreter finalizes
\* new_file, which writes its buffered bytes to the file it has open (by now
\* the one at filename), and the process exits with code 0
Finish ==
    /\ pc = "done"
    /\ fs' = [fs EXCEPT !["filename"].data = @ \o pending]
    /\ pending' = <<>>
    /\ Exit(0)
    /\ UNCHANGED <<argc, fs_at_start, locals, run, prev_buffer>>

\* The process is interrupted (killed, power loss): nothing more runs and
\* the bytes still in new_file's write buffer are lost.
Interrupt ==
    /\ pc \notin {"exited", "killed"}
    /\ pc' = "killed"
    /\ pending' = <<>>
    /\ UNCHANGED <<argc, fs, fs_at_start, exit_code, locals, run, prev_buffer>>

\* The tool is invoked again on the same path after a successful run.
Rerun ==
    /\ pc = "exited"
    /\ exit_code = 0
    /\ run < MaxRuns
    /\ run' = run + 1
    /\ prev_buffer' = buffer
    /\ fs_at_start' = fs
    /\ pc' = "args"
    /\ exit_code' = -1
    /\ buffer' = <<>>
    /\ original_checksum' = 0
    /\ updated_buffer' = <<>>
    /\ difference' = 0
    /\ replaced' = <<>>
    /\ i' = 0
    /\ fixed_buffer' = <<>>
    /\ new_checksum' = 0
    /\ UNCHANGED <<argc, fs, pending>>

Next ==
    \/ CheckArgs
    \/ CheckExists
    \/ ReadFile
    \/ ReplaceBandLimits
    \/ FixupEnter
    \/ FixupLoop
    \/ FixupReturn
    \/ Recheck
    \/ Verify
    \/ CreateTemp
    \/ WriteTemp
    \/ RenameBackup
    \/ RenameTemp
    \/ Finish
    \/ Interrupt
    \/ Rerun

Spec == Init /\ [][Next]_vars

-----------------------------------------------------------------------------
(* fixup_checksum on its own: any buffer, any 16-bit target *)

\* buffers whose checksums lie at both ends of the 16-bit range
FixupInputs ==
    {Pad(n) \o Flatten(ps) : n \in {0, PadLen, PadLen + 8},
                             ps \in PieceSeqs(MaxFixupPieces)}

\* differences around every multiple of 32, of both signs, and differences
\* almost as large as the whole 16-bit range
Diffs ==
    {s * (MaxChange * k + r) : s \in {-1, 1}, k \in 0..MaxSteps, r \in {0, 1, 31}}
    \cup {s * (Modulus - MaxChange * k) : s \in {-1, 1}, k \in 1..MaxSteps}

InitFixup ==
    /\ argc = 2
    /\ fs = [p \in Paths |-> NoFile]
    /\ fs_at_start = fs
    /\ pc = "fixup"
    /\ exit_code = -1
    /\ buffer = <<>>
    /\ updated_buffer \in FixupInputs
    /\ \E d \in Diffs :
         /\ checksum(updated_buffer) + d \in 0..(Modulus - 1)
         /\ original_checksum = checksum(updated_buffer) + d
    /\ difference = 0
    /\ replaced = <<>>
    /\ i = 0
    /\ fixed_buffer = <<>>
    /\ new_checksum = 0
    /\ pending = <<>>
    /\ run = 1
    /\ prev_buffer = <<>>

NextFixup ==
    \/ FixupEnter
    \/ FixupLoop
    \/ FixupReturn
    \/ Recheck

SpecFixup == InitFixup /\ [][NextFixup]_vars

-----------------------------------------------------------------------------
(* Vocabulary of the properties *)

Abs(x) == IF x < 0 THEN -x ELSE x

\* positions at which sub occurs in buf
Occurrences(buf, sub) == {p \in 1..Len(buf) : MatchAt(buf, sub, p)}

\* the first n occurrences, left to right
FirstOccurrences(buf, sub, n) ==
    LET occ == Occurrences(buf, sub)
    IN  {p \in occ : Cardinality({q \in occ : q < p}) < n}

NonSpaceCount == Cardinality({j \in 1..Len(original) : original[j] # Space})

\* the driver is past the checksum verification
Writing == pc \in {"mktemp", "write", "rename_backup", "rename_temp", "done"}

-----------------------------------------------------------------------------
(* Properties *)

\* C1: the driver reaches the temp-file write and the renames only with a
\* fixed buffer whose checksum equals the original checksum; a run that ends
\* with exit code 3 is one whose checksums differ, and it has created no temp
\* file, renamed nothing and written nothing.
C1_WriteOnlyIfChecksumMatches ==
    /\ (Writing \/ fs # fs_at_start \/ (pc = "exited" /\ exit_code = 0))
          => checksum(fixed_buffer) = checksum(buffer)
    /\ (pc = "exited" /\ exit_code = 3)
          => /\ checksum(fixed_buffer) # checksum(buffer)
             /\ fs = fs_at_start
             /\ pending = <<>>

C1_Witness ==
    /\ pc = "exited"
    /\ exit_code = 3
    /\ Occurrences(buffer, Needle) # {}

\* C2: fixup_checksum on a buffer with exactly one anchor and a target within
\* 32 x (number of non-space anchor bytes) of the buffer's checksum returns a
\* buffer of the same length whose checksum is the target.
C2_FixupReachesTarget ==
    ( /\ pc = "verify"
      /\ Cardinality(Occurrences(updated_buffer, original)) = 1
      /\ Abs(original_checksum - checksum(updated_buffer))
            <= MaxChange * NonSpaceCount )
    => /\ new_checksum = original_checksum
       /\ Len(fixed_buffer) = Len(updated_buffer)

C2_Witness ==
    /\ pc = "verify"
    /\ Cardinality(Occurrences(updated_buffer, original)) = 1
    /\ original_checksum - checksum(updated_buffer) = -(MaxChange * NonSpaceCount)
    /\ new_checksum = original_checksum

\* C3 (as claimed): whenever the input holds the band-limit pattern three
\* times and the anchor once, the run ends with the recomputed checksum equal
\* to the original checksum and exit code 0, whatever the original checksum.
C3_ThreePatternsAlwaysSucceed ==
    ( /\ pc = "exited"
      /\ Cardinality(Occurrences(buffer, Needle)) = 3
      /\ Cardinality(Occurrences(buffer, original)) = 1 )
    => /\ exit_code = 0
       /\ new_checksum = original_checksum

\* C4: a run that ends with exit code 1, 2 or 3 leaves the directory as it
\* was at start; the directory changes only after the argument check, the
\* existence check and the checksum verification have passed.
C4_FailedRunTouchesNothing ==
    /\ (pc = "exited" /\ exit_code \in {1, 2, 3})
          => fs = fs_at_start /\ pending = <<>>
    /\ fs # fs_at_start
          => /\ argc = 2
             /\ fs_at_start["filename"].exists
             /\ new_checksum = original_checksum
             /\ original_checksum = checksum(fs_at_start["filename"].data)

C4_Witness ==
    /\ pc = "exited"
    /\ exit_code = 2
    /\ argc = 2

\* C5: throughout a run, interrupted or not, the complete original content is
\* at the original path or at the backup path; once the original path has
\* been vacated (between the two renames) it is at the backup path.
C5_OriginalRecoverable ==
    fs_at_start["filename"].exists
    => /\ \/ fs["filename"] = fs_at_start["filename"]
          \/ fs["backup_filename"] = fs_at_start["filename"]
       /\ (pc = "rename_temp" \/ ~fs["filename"].exists)
             => fs["backup_filename"] = fs_at_start["filename"]

C5_Witness ==
    /\ pc = "killed"
    /\ ~fs["filename"].exists
    /\ fs["backup_filename"].exists
    /\ fs["backup_filename"].data # <<>>

\* C6 (as claimed): the file at the original path always holds the complete
\* original content or the complete patched buffer.
C6_NeverPartialAtPath ==
    (fs_at_start["filename"].exists /\ fs["filename"].exists)
    => \/ fs["filename"].data = fs_at_start["filename"].data
       \/ fs["filename"].data = fixed_buffer

\* C7: a run that exits with code 0 leaves the bytes the original file had at
\* start at the backup path, fixed_buffer (same length and same checksum as
\* the original) at the original path, and nothing at the temp name.
C7_SuccessState ==
    (pc = "exited" /\ exit_code = 0)
    => /\ fs_at_start["filename"].exists
       /\ fs["backup_filename"] = fs_at_start["filename"]
       /\ fs["filename"] = File(fixed_buffer)
       /\ ~fs["new_file"].exists
       /\ Len(fixed_buffer) = Len(fs_at_start["filename"].data)
       /\ checksum(fixed_buffer) = checksum(fs_at_start["filename"].data)

C7_Witness ==
    /\ pc = "exited"
    /\ exit_code = 0
    /\ fixed_buffer # updated_buffer
    /\ updated_buffer # buffer

\* C8: replace_band_limits keeps the length, puts A0 05 68 06 at the first
\* min(3, k) occurrences of DC 05 A4 06 and leaves every other byte,
\* including every later occurrence, as it was.
C8_ReplaceFirstThree ==
    pc = "fixup"
    => LET first == FirstOccurrences(buffer, Needle, MaxCount)
           touched == {j \in 1..Len(buffer) :
                          \E p \in first : j \in p..(p + Len(Needle) - 1)}
       IN  /\ Len(updated_buffer) = Len(buffer)
           /\ \A p \in first : MatchAt(updated_buffer, Replacement, p)
           /\ \A j \in 1..Len(buffer) :
                 j \notin touched => updated_buffer[j] = buffer[j]
           /\ \A p \in Occurrences(buffer, Needle) \ first :
                 MatchAt(updated_buffer, Needle, p)

C8_Witness ==
    /\ pc = "fixup"
    /\ Cardinality(Occurrences(buffer, Needle)) > MaxCount
    /\ Occurrences(updated_buffer, Needle) # {}

\* what C9 says of a run
NoOpRun ==
    /\ pc = "fixup" => updated_buffer = buffer
    /\ (pc = "loop" /\ i = 0) => difference = 0
    /\ pc = "recheck" => fixed_buffer = buffer
    /\ pc = "exited" => exit_code = 0

\* C9 (as claimed): a run on the output of a successful run substitutes
\* nothing, computes difference 0, returns the buffer unchanged and exits 0,
\* whatever the first input was.
C9_SecondRunNoOp == run > 1 => NoOpRun

\* C9 (amended): the same, for first inputs that held at most three
\* occurrences of the band-limit pattern.
C9_SecondRunNoOpUpToThree ==
    (run > 1 /\ Cardinality(Occurrences(prev_buffer, Needle)) <= MaxCount)
    => NoOpRun

C9_Witness ==
    /\ run > 1
    /\ pc = "exited"
    /\ exit_code = 0
    /\ Cardinality(Occurrences(prev_buffer, Needle)) = MaxCount
    /\ fixed_buffer = buffer

\* C10: in the loop of fixup_checksum every byte of the working copy is in
\* 0..255 (no ValueError), a space of the anchor stays a space, no byte is
\* more than 32 away from the anchor's, and the bytes the loop has not
\* reached, or left behind when difference became 0, are the anchor's.
C10_LoopKeepsBytesValid ==
    /\ pc \in {"loop", "fixup_return"}
          => /\ Len(replaced) = Len(original)
             /\ \A j \in 1..Len(original) :
                   /\ replaced[j] \in 0..255
                   /\ original[j] = Space => replaced[j] = Space
                   /\ Abs(replaced[j] - original[j]) <= MaxChange
                   /\ j > i => replaced[j] = original[j]
    /\ pc # "exited"

C10_Witness ==
    /\ pc = "fixup_return"
    /\ difference < 0
    /\ i = Len(original)
    /\ \A j \in 1..Len(original) :
          original[j] # Space => replaced[j] = original[j] - MaxChange

====
